---- MODULE Spec2Model ----
(***************************************************************************)
(* A model of the Loops API client (package loops).                        *)
(*                                                                         *)
(* The repository holds two near-duplicate copies of the package:          *)
(* src/loops.go and src/unnamed/part_000.  They differ in the set of types *)
(* validateFields accepts (part_000 has no time.Time), in the HTTP method  *)
(* of DeleteContact (POST against DELETE) and in SendTransactional, which  *)
(* only loops.go has.  The variable `variant` says which copy runs.        *)
(*                                                                         *)
(* Strings are modelled as sequences of characters where their shape       *)
(* matters (the endpoint and the request URL) and as sequences of tokens   *)
(* for error texts.  A Go map is a function on a set of keys; a Go `any`   *)
(* value is a record [type, val] that carries its dynamic type.            *)
(***************************************************************************)
EXTENDS Integers, Sequences, FiniteSets, TLC

VARIABLES
    variant,    \* which copy of the package is running
    apiKey,     \* Client.apiKey
    endpoint,   \* Client.endpoint
    client,     \* Client.client
    calls       \* one record per caller: the facade call it is in, if any

vars == <<variant, apiKey, endpoint, client, calls>>

cfg == <<apiKey, endpoint, client>>

----------------------------------------------------------------------------
(* Bounds of the model *)

\* number of field names other than "email" a field mapping may hold
NumCustomKeys == 2
\* longest endpoint string handed to WithEndpoint, in characters
MaxEndpointLen == 2
\* longest response body, in chunks as the transport delivers them
MaxBodyLen == 2

----------------------------------------------------------------------------
(* Go values *)

Variants == {"loops.go", "part_000"}

KeyNames == <<"name", "age", "plan", "team">>

CustomKeys == {KeyNames[i] : i \in 1..NumCustomKeys}

Keys == {"email"} \cup CustomKeys

\* A value of type `any`: its dynamic type, as %T prints it, and its value.
GoValue(t, v) == [type |-> t, val |-> v]

\* Values stored under a custom key: one of each dynamic type.
CustomValues ==
    {GoValue("string", "Ann"), GoValue("bool", "true"), GoValue("int", "7"),
     GoValue("time.Time", "2024-01-01"), GoValue("float64", "1.5")}

Emails == {"a@x.io", "b@x.io"}

\* Values stored under the key "email": anything, an address or not.
EmailValues == CustomValues \cup {GoValue("string", e) : e \in Emails}

EmptyMap == [k \in {} |-> GoValue("string", "")]

MapPut(m, k, v) == [x \in (DOMAIN m) \cup {k} |-> IF x = k THEN v ELSE m[x]]

MapDrop(m, k) == [x \in (DOMAIN m) \ {k} |-> m[x]]

\* Every map[string]any over Keys.
FieldMaps ==
    UNION {[ks -> EmailValues \cup CustomValues] : ks \in SUBSET Keys}

\* The field mappings callers pass: custom keys hold CustomValues.
AllFields ==
    {f \in FieldMaps : \A k \in DOMAIN f : k # "email" => f[k] \in CustomValues}

\* The orders in which `range` may visit the keys of a map (Go leaves the
\* iteration order unspecified).
RangeOrders(m) ==
    {o \in [1..Cardinality(DOMAIN m) -> DOMAIN m] :
        \A k \in DOMAIN m : \E i \in DOMAIN o : o[i] = k}

----------------------------------------------------------------------------
(* validateFields *)

\* The types of the `case` of the type switch.
AllowedTypes(v) ==
    IF v = "loops.go" THEN {"string", "bool", "int", "time.Time"}
    ELSE {"string", "bool", "int"}

NoError == <<>>

\* fmt.Errorf("invalid field type for %s: %T", k, v)
InvalidFieldError(k, v) == <<"invalid field type for ", k, ": ", v.type>>

\* A (map, error) pair as validateFields returns it.  isNil tells a nil map
\* from an empty one; alias tells whether the returned map is the very map
\* object the caller passed in (Go maps are references) or a fresh one.
MapResult(isNil, m, err) ==
    [isNil |-> isNil, m |-> m, err |-> err, alias |-> FALSE]

RECURSIVE validateLoop(_, _, _, _)
\* The body of the `for k, v := range fields` loop, visiting `order`.
validateLoop(v, fields, order, ret) ==
    IF order = <<>> THEN MapResult(FALSE, ret, NoError)
    ELSE LET k == Head(order) IN
         IF k = "email" THEN validateLoop(v, fields, Tail(order), ret)
         ELSE IF fields[k].type \notin AllowedTypes(v)
              THEN MapResult(TRUE, EmptyMap, InvalidFieldError(k, fields[k]))
              ELSE validateLoop(v, fields, Tail(order), MapPut(ret, k, fields[k]))

\* ret := map[string]any{} and the loop over it.
validateFields(v, fields, order) == validateLoop(v, fields, order, EmptyMap)

----------------------------------------------------------------------------
(* Strings with a shape: the endpoint and the request URL *)

RECURSIVE SeqsUpTo(_, _)
SeqsUpTo(S, n) ==
    IF n = 0 THEN {<<>>}
    ELSE LET shorter == SeqsUpTo(S, n - 1) IN
         shorter \cup {Append(s, x) : s \in {t \in shorter : Len(t) = n - 1}, x \in S}

\* "a" stands for a hexadecimal letter, "%" starts an escape.
EndpointChars == {"a", "/", "%"}

DefaultEndpoint == <<"https:", "/", "/", "app.loops.so", "/", "api", "/", "v1">>

\* The strings callers hand to WithEndpoint.
AllEndpoints == SeqsUpTo(EndpointChars, MaxEndpointLen) \cup {DefaultEndpoint}

HasSuffix(s, suffix) ==
    /\ Len(s) >= Len(suffix)
    /\ SubSeq(s, Len(s) - Len(suffix) + 1, Len(s)) = suffix

\* strings.TrimSuffix: removes one trailing occurrence of suffix, if any.
TrimSuffix(s, suffix) ==
    IF HasSuffix(s, suffix) THEN SubSeq(s, 1, Len(s) - Len(suffix)) ELSE s

IsHex(c) == c = "a"

\* url.Parse, as far as strings over EndpointChars and the fixed paths can
\* make it fail: a "%" must be followed by two hexadecimal digits.
URLParses(url) ==
    \A i \in 1..Len(url) :
        url[i] = "%" => /\ i + 2 <= Len(url)
                        /\ IsHex(url[i + 1])
                        /\ IsHex(url[i + 2])

----------------------------------------------------------------------------
(* The transport: what client.Do may return *)

Procs == {"p1", "p2"}

BodyChunks == {"val", "bad", "sp"}

StatusCodes == {200, 399, 400, 500}

\* http.Response.Status for each status code the model uses.
StatusLine(code) ==
    CASE code = 200 -> "200 OK"
      [] code = 399 -> "399 status code 399"
      [] code = 400 -> "400 Bad Request"
      [] OTHER      -> "500 Internal Server Error"

\* What client.Do returns: a transport error, or a response whose Body is
\* a stream of chunks.  failAt = i > 0 says that the i-th Read of the body
\* fails (the connection breaks); failAt = 0 that every Read succeeds.
TransportError ==
    [err |-> TRUE, StatusCode |-> 0, Status |-> "", Body |-> <<>>, failAt |-> 0]

Response(code, body, failAt) ==
    [err |-> FALSE, StatusCode |-> code, Status |-> StatusLine(code),
     Body |-> body, failAt |-> failAt]

AllOutcomes ==
    {TransportError} \cup
    UNION {{Response(code, body, failAt) :
                code \in StatusCodes, failAt \in 0..Len(body)} :
           body \in SeqsUpTo(BodyChunks, MaxBodyLen)}

\* The outcomes with at most one chunk of body and no broken connection.
FewOutcomes ==
    {o \in AllOutcomes :
        /\ o.failAt = 0
        /\ o.StatusCode \in {200, 400}
        /\ o.Body \in {<<"val">>, <<"bad">>}}
    \cup {TransportError}

\* The result of reading a body: the chunks read, and the error if any.
ReadResult(n, buf, err) == [n |-> n, buf |-> buf, err |-> err]

\* io.ReadAll(resp.Body): every chunk up to EOF or to the failing Read.
ReadAll(r) ==
    IF r.failAt = 0
    THEN ReadResult(Len(r.Body), r.Body, NoError)
    ELSE ReadResult(r.failAt - 1, SubSeq(r.Body, 1, r.failAt - 1),
                    <<"read error">>)

\* json.NewDecoder(resp.Body).Decode(dst), from chunk i on: whitespace is
\* skipped; the decoder stops reading at the end of the first JSON value,
\* at the first malformed byte, at a failing Read or at EOF.
RECURSIVE DecodeFrom(_, _)
DecodeFrom(r, i) ==
    IF i > Len(r.Body) THEN ReadResult(Len(r.Body), <<>>, <<"EOF">>)
    ELSE IF r.failAt = i THEN ReadResult(i - 1, <<>>, <<"read error">>)
    ELSE IF r.Body[i] = "sp" THEN DecodeFrom(r, i + 1)
    ELSE IF r.Body[i] = "bad"
         THEN ReadResult(i, <<>>, <<"invalid character">>)
         ELSE ReadResult(i, <<"val">>, NoError)

Decode(r) == DecodeFrom(r, 1)

----------------------------------------------------------------------------
(* json.Marshal *)

\* dataVariables of a SendTransactionalRequest: nil, a map of strings, or a
\* map holding a value encoding/json cannot encode.
DataVariables ==
    {GoValue("map[string]interface {}", "nil"),
     GoValue("map[string]interface {}", "string"),
     GoValue("map[string]interface {}", "chan int")}

Marshalable(v) == v.val # "chan int"

\* The JSON encoding of one value: the dynamic type is lost, a time.Time
\* becomes a string, numbers become JSON numbers.
JSONValue(v) ==
    CASE v.type \in {"string", "time.Time"} -> <<"\"", v.val, "\"">>
      [] v.val = "nil"                      -> <<"null">>
      [] v.type = "map[string]interface {}" -> <<"{", v.val, "}">>
      [] OTHER                              -> <<v.val>>

\* json.Marshal(body)
Marshal(body) ==
    IF \E k \in DOMAIN body : ~Marshalable(body[k])
    THEN [json |-> [k \in {} |-> <<>>], err |-> <<"json: unsupported type">>]
    ELSE [json |-> [k \in DOMAIN body |-> JSONValue(body[k])], err |-> NoError]

----------------------------------------------------------------------------
(* A facade call in progress *)

NilResponse == "nil"

\* The (response, error) pair a facade function returns.
Result(resp, err) == [resp |-> resp, err |-> err]

IdleCall ==
    [pc         |-> "idle",     \* idle, await (inside client.Do) or done
     op         |-> "none",     \* the facade function called
     email      |-> "",         \* its email argument
     argFields  |-> EmptyMap,   \* the field mapping as the caller passed it
     fields     |-> EmptyMap,   \* the caller's field mapping as it is now
     validated  |-> FALSE,      \* validateFields has run
     vres       |-> MapResult(TRUE, EmptyMap, NoError),  \* what it returned
     dispatched |-> FALSE,      \* doRequest has been called
     path       |-> <<>>,       \* doRequest's path argument
     body       |-> EmptyMap,   \* doRequest's body argument
     wire       |-> <<>>,       \* the requests handed to client.Do
     resp       |-> TransportError,  \* what client.Do returned
     opened     |-> FALSE,      \* client.Do returned a response
     read       |-> 0,          \* chunks of resp.Body read so far
     closed     |-> FALSE,      \* resp.Body.Close() has run
     ret        |-> Result(NilResponse, NoError)]

\* The response type each facade function decodes into.
ResponseType(op) ==
    CASE op = "CreateContact"     -> "CreateContactResponse"
      [] op = "UpsertContact"     -> "UpsertContactResponse"
      [] op = "DeleteContact"     -> "DeleteContactResponse"
      [] op = "SendEvent"         -> "SendEventResponse"
      [] OTHER                    -> "SendTransactionalResponse"

\* A facade that returns &resp whether or not doRequest failed.
FacadeReturnKeepsResp(call, err) ==
    [call EXCEPT !.pc = "done", !.ret = Result(ResponseType(call.op), err)]

\* The facade's `if err != nil { return nil, err }; return &resp, nil`.
FacadeReturn(call, err) ==
    [call EXCEPT !.pc = "done",
                 !.ret = IF err # NoError THEN Result(NilResponse, err)
                         ELSE Result(ResponseType(call.op), NoError)]

\* The client doRequest passes the request to.
EffectiveClient(c) == IF c = "nil" THEN "http.DefaultClient" ELSE c

\* A dispatcher that stores the default client in c.client instead of a
\* local variable.
ConfigAfterRequestStoresClient(k, e, c) == <<k, e, EffectiveClient(c)>>

\* The Client fields as a facade call leaves them: it assigns to none.
ConfigAfterRequest(k, e, c) == <<k, e, c>>

\* The request doRequest builds and hands to client.Do.
WireRequest(k, e, c, method, path, json) ==
    [method        |-> method,
     url           |-> e \o path,
     json          |-> json,
     contentType   |-> "application/json",
     authorization |-> IF k # "" THEN <<"Bearer ", k>> ELSE <<>>,
     client        |-> EffectiveClient(c)]

\* doRequest up to client.Do(req): marshal the body, build the request,
\* set the headers, pick the client.  Either an error is returned at once
\* (and the facade returns it), or the call waits inside client.Do.
doRequestSend(call, k, e, c, method, path, body) ==
    LET started == [call EXCEPT !.dispatched = TRUE, !.path = path,
                                !.body = body]
        m == Marshal(body)
    IN  IF m.err # NoError THEN FacadeReturn(started, m.err)
        ELSE IF ~URLParses(e \o path)
             THEN FacadeReturn(started, <<"parse ", "invalid URL escape">>)
             ELSE [started EXCEPT
                     !.pc = "await",
                     !.wire = Append(@, WireRequest(k, e, c, method, path, m.json))]

\* fmt.Errorf("%s: %s", resp.Status, buf)
StatusError(status, buf) == <<status, ": ">> \o buf

\* doRequest once client.Do returned a response: the deferred Close, the
\* status check with its best-effort ReadAll, the decoding into dst, and
\* the facade's return after it.
doRequestRead(call, o) ==
    LET got == [call EXCEPT !.resp = o, !.opened = TRUE, !.closed = TRUE] IN
    IF o.StatusCode >= 400
    THEN LET r == ReadAll(o) IN
         FacadeReturn([got EXCEPT !.read = r.n], StatusError(o.Status, r.buf))
    ELSE LET d == Decode(o) IN
         FacadeReturn([got EXCEPT !.read = d.n], d.err)

\* A dispatcher that sends the request again when the transport fails.
doRequestReceiveRetries(call, o) ==
    IF o.err THEN [call EXCEPT !.wire = Append(@, @[1])]
    ELSE doRequestRead(call, o)

\* A dispatcher that closes the body after decoding instead of deferring
\* the Close, so that the status error path returns before it.
doRequestReceiveLeaks(call, o) ==
    IF o.err THEN FacadeReturn([call EXCEPT !.resp = o], <<"transport error">>)
    ELSE IF o.StatusCode >= 400
         THEN [doRequestRead(call, o) EXCEPT !.closed = FALSE]
         ELSE doRequestRead(call, o)

\* A dispatcher that tests resp.StatusCode > 400.
doRequestReceiveOffByOne(call, o) ==
    IF o.err THEN FacadeReturn([call EXCEPT !.resp = o], <<"transport error">>)
    ELSE IF o.StatusCode = 400
         THEN [doRequestRead(call, Response(399, o.Body, o.failAt))
                 EXCEPT !.resp = o]
         ELSE doRequestRead(call, o)

\* doRequest after client.Do returned `o`, run to its return, and the
\* facade's return after it.
doRequestReceive(call, o) ==
    IF o.err THEN FacadeReturn([call EXCEPT !.resp = o], <<"transport error">>)
    ELSE doRequestRead(call, o)

----------------------------------------------------------------------------
(* The facade *)

Str(s) == GoValue("string", s)

Path(op) ==
    CASE op = "CreateContact" -> <<"/", "contacts", "/", "create">>
      [] op = "UpsertContact" -> <<"/", "contacts", "/", "update">>
      [] op = "DeleteContact" -> <<"/", "contacts", "/", "delete">>
      [] op = "SendEvent"     -> <<"/", "events", "/", "send">>
      [] OTHER                -> <<"/", "transactional">>

Method(v, op) ==
    CASE op = "UpsertContact" -> "PUT"
      [] op = "DeleteContact" -> IF v = "loops.go" THEN "POST" ELSE "DELETE"
      [] OTHER                -> "POST"

StartCall(op, email, fields) ==
    [IdleCall EXCEPT !.op = op, !.email = email,
                     !.argFields = fields, !.fields = fields]

\* A facade that drops the validator's error.
contactCallSendsAnyway(v, k, e, c, op, email, fields, order) ==
    LET r == validateFields(v, fields, order)
        call == [StartCall(op, email, fields) EXCEPT
                    !.validated = TRUE, !.vres = r]
        req == MapPut(r.m, "email", Str(email))
    IN  doRequestSend(call, k, e, c, Method(v, op), Path(op), req)

\* A facade that prefers an address found in the field mapping.
contactCallKeepsEmail(v, k, e, c, op, email, fields, order) ==
    LET r == validateFields(v, fields, order)
        call == [StartCall(op, email, fields) EXCEPT
                    !.validated = TRUE, !.vres = r]
    IN  IF r.err # NoError THEN FacadeReturn(call, r.err)
        ELSE LET req == IF "email" \in DOMAIN fields /\ fields["email"].type = "string"
                        THEN MapPut(r.m, "email", fields["email"])
                        ELSE MapPut(r.m, "email", Str(email))
             IN doRequestSend(call, k, e, c, Method(v, op), Path(op), req)

\* The shared body of CreateContact and UpsertContact: validate, set
\* req["email"], call doRequest.  The caller's map changes only if req is
\* that same map.
contactCall(v, k, e, c, op, email, fields, order) ==
    LET r == validateFields(v, fields, order)
        call == [StartCall(op, email, fields) EXCEPT
                    !.validated = TRUE, !.vres = r]
    IN  IF r.err # NoError THEN FacadeReturn(call, r.err)
        ELSE LET req == MapPut(r.m, "email", Str(email))
                 aliased == [call EXCEPT !.fields = IF r.alias THEN req ELSE @]
             IN doRequestSend(aliased, k, e, c, Method(v, op), Path(op), req)

ConfigBecomes(t) ==
    /\ apiKey' = t[1]
    /\ endpoint' = t[2]
    /\ client' = t[3]

AllIdle == \A p \in Procs : calls[p].pc = "idle"

CreateContact(p, Fs) ==
    /\ calls[p].pc = "idle"
    /\ \E email \in Emails, fields \in Fs :
         \E order \in RangeOrders(fields) :
            calls' = [calls EXCEPT ![p] =
                        contactCall(variant, apiKey, endpoint, client,
                                    "CreateContact", email, fields, order)]
    /\ ConfigBecomes(ConfigAfterRequest(apiKey, endpoint, client))
    /\ UNCHANGED variant

UpsertContact(p, Fs) ==
    /\ calls[p].pc = "idle"
    /\ \E email \in Emails, fields \in Fs :
         \E order \in RangeOrders(fields) :
            calls' = [calls EXCEPT ![p] =
                        contactCall(variant, apiKey, endpoint, client,
                                    "UpsertContact", email, fields, order)]
    /\ ConfigBecomes(ConfigAfterRequest(apiKey, endpoint, client))
    /\ UNCHANGED variant

DeleteContact(p) ==
    /\ calls[p].pc = "idle"
    /\ \E email \in Emails :
         LET req == [k \in {"email"} |-> Str(email)] IN
         calls' = [calls EXCEPT ![p] =
                     doRequestSend(StartCall("DeleteContact", email, EmptyMap),
                                   apiKey, endpoint, client,
                                   Method(variant, "DeleteContact"),
                                   Path("DeleteContact"), req)]
    /\ ConfigBecomes(ConfigAfterRequest(apiKey, endpoint, client))
    /\ UNCHANGED variant

EventNames == {"signup"}

SendEvent(p) ==
    /\ calls[p].pc = "idle"
    /\ \E email \in Emails, name \in EventNames :
         LET req == [k \in {"email", "eventName"} |->
                        IF k = "email" THEN Str(email) ELSE Str(name)] IN
         calls' = [calls EXCEPT ![p] =
                     doRequestSend(StartCall("SendEvent", email, EmptyMap),
                                   apiKey, endpoint, client,
                                   Method(variant, "SendEvent"),
                                   Path("SendEvent"), req)]
    /\ ConfigBecomes(ConfigAfterRequest(apiKey, endpoint, client))
    /\ UNCHANGED variant

TransactionalIDs == {"welcome"}

\* Only loops.go has SendTransactional.
SendTransactional(p) ==
    /\ variant = "loops.go"
    /\ calls[p].pc = "idle"
    /\ \E email \in Emails, id \in TransactionalIDs, data \in DataVariables :
         LET req == [k \in {"email", "transactionalId", "dataVariables"} |->
                        CASE k = "email" -> Str(email)
                          [] k = "transactionalId" -> Str(id)
                          [] OTHER -> data] IN
         calls' = [calls EXCEPT ![p] =
                     doRequestSend(StartCall("SendTransactional", email, EmptyMap),
                                   apiKey, endpoint, client,
                                   Method(variant, "SendTransactional"),
                                   Path("SendTransactional"), req)]
    /\ ConfigBecomes(ConfigAfterRequest(apiKey, endpoint, client))
    /\ UNCHANGED variant

\* client.Do returns and doRequest, then the facade function, run to their
\* return.
TransportReturns(p, Os) ==
    /\ calls[p].pc = "await"
    /\ \E o \in Os : calls' = [calls EXCEPT ![p] = doRequestReceive(@, o)]
    /\ UNCHANGED <<variant, apiKey, endpoint, client>>

\* The caller takes the result; it may call again.
Finish(p) ==
    /\ calls[p].pc = "done"
    /\ calls' = [calls EXCEPT ![p] = IdleCall]
    /\ UNCHANGED <<variant, apiKey, endpoint, client>>

----------------------------------------------------------------------------
(* The configuration *)

Clients == {"nil", "http.DefaultClient", "custom"}

APIKeys == {"", "key"}

\* The setters write Client fields without synchronisation; a setter that
\* runs while a call is in progress is a data race, so callers configure
\* the client between calls.
WithEndpoint(Es) ==
    /\ AllIdle
    /\ \E e \in Es : endpoint' = TrimSuffix(e, <<"/">>)
    /\ UNCHANGED <<variant, apiKey, client, calls>>

WithHTTPClient ==
    /\ AllIdle
    /\ \E c \in Clients : client' = c
    /\ UNCHANGED <<variant, apiKey, endpoint, calls>>

\* NewClient(apiKey), in either copy of the package.
Init ==
    /\ variant \in Variants
    /\ apiKey \in APIKeys
    /\ endpoint = DefaultEndpoint
    /\ client = "http.DefaultClient"
    /\ calls = [p \in Procs |-> IdleCall]

----------------------------------------------------------------------------
(* Specifications *)

FewFields ==
    {EmptyMap,
     [k \in {"name"} |-> GoValue("float64", "1.5")],
     [k \in {"email", "name"} |->
        IF k = "email" THEN Str("b@x.io") ELSE GoValue("time.Time", "2024-01-01")]}

FewEndpoints == {DefaultEndpoint, <<"a", "/">>, <<"%">>}

\* One caller, every field mapping, few endpoints and transport outcomes.
NextFields ==
    \/ CreateContact("p1", AllFields)
    \/ UpsertContact("p1", AllFields)
    \/ DeleteContact("p1")
    \/ SendEvent("p1")
    \/ SendTransactional("p1")
    \/ TransportReturns("p1", FewOutcomes)
    \/ Finish("p1")
    \/ WithEndpoint(FewEndpoints)
    \/ WithHTTPClient

SpecFields == Init /\ [][NextFields]_vars

\* One caller, every transport outcome, few field mappings and endpoints.
NextTransport ==
    \/ CreateContact("p1", FewFields)
    \/ UpsertContact("p1", FewFields)
    \/ DeleteContact("p1")
    \/ SendEvent("p1")
    \/ SendTransactional("p1")
    \/ TransportReturns("p1", AllOutcomes)
    \/ Finish("p1")
    \/ WithEndpoint(FewEndpoints)
    \/ WithHTTPClient

SpecTransport == Init /\ [][NextTransport]_vars

\* Two concurrent callers on one client, every endpoint, few field
\* mappings and transport outcomes.
NextConfig ==
    \/ \E p \in Procs :
          \/ CreateContact(p, FewFields)
          \/ UpsertContact(p, FewFields)
          \/ DeleteContact(p)
          \/ SendEvent(p)
          \/ SendTransactional(p)
          \/ TransportReturns(p, FewOutcomes)
          \/ Finish(p)
    \/ WithEndpoint(AllEndpoints)
    \/ WithHTTPClient

SpecConfig == Init /\ [][NextConfig]_vars

----------------------------------------------------------------------------
(* Properties *)

\* The types the specification allows in a field mapping.
SpecTypes == {"string", "bool", "int", "time.Time"}

CustomKeysOf(m) == (DOMAIN m) \ {"email"}

\* The keys other than "email" whose value has a type outside `types`.
Offending(m, types) == {k \in CustomKeysOf(m) : m[k].type \notin types}

Contains(text, sub) ==
    \E i \in 0..(Len(text) - Len(sub)) : SubSeq(text, i + 1, i + Len(sub)) = sub

IsContactOp(c) == c.op \in {"CreateContact", "UpsertContact"}

\* C1: when some entry under a key other than "email" has a type outside
\* {string, bool, int, time.Time}, validateFields fails, its error names one
\* of those entries with its type, and the map it returns is nil.
C1_InvalidTypeRejected ==
    \A p \in Procs :
        LET c == calls[p] IN
        (c.validated /\ Offending(c.argFields, SpecTypes) # {}) =>
            /\ c.vres.err # NoError
            /\ c.vres.isNil
            /\ \E k \in Offending(c.argFields, SpecTypes) :
                  c.vres.err = InvalidFieldError(k, c.argFields[k])

\* C2: when every entry under a key other than "email" has a type in
\* {string, bool, int, time.Time}, validateFields succeeds and returns a new
\* map equal to the input without "email"; the input map is unchanged.
C2_ValidOutputIsInputMinusEmail ==
    \A p \in Procs :
        LET c == calls[p] IN
        (c.validated /\ Offending(c.argFields, SpecTypes) = {}) =>
            /\ c.vres.err = NoError
            /\ ~c.vres.isNil
            /\ ~c.vres.alias
            /\ c.vres.m = MapDrop(c.argFields, "email")
            /\ c.fields = c.argFields

\* C3: a CreateContact or UpsertContact call whose field mapping holds a
\* value of a type the validator rejects has returned (nil, the validator's
\* error), without calling doRequest and without handing any request to the
\* transport.
C3_InvalidFieldsNeverReachTransport ==
    \A p \in Procs :
        LET c == calls[p] IN
        (IsContactOp(c) /\ Offending(c.argFields, AllowedTypes(variant)) # {}) =>
            /\ c.pc = "done"
            /\ c.vres.err # NoError
            /\ c.ret = Result(NilResponse, c.vres.err)
            /\ ~c.dispatched
            /\ c.wire = <<>>

C3_Witness ==
    \E p \in Procs :
        /\ calls[p].op = "UpsertContact"
        /\ calls[p].pc = "done"
        /\ Offending(calls[p].argFields, SpecTypes) # {}
        /\ Offending(calls[p].argFields, SpecTypes) # CustomKeysOf(calls[p].argFields)

\* C4: the body CreateContact and UpsertContact pass to doRequest has the
\* email argument under "email", whatever the field mapping holds there,
\* and otherwise exactly the validated fields, which are the caller's fields
\* without "email"; the caller's field mapping is as it was passed.
C4_BodyEmailIsArgument ==
    \A p \in Procs :
        LET c == calls[p] IN
        (IsContactOp(c) /\ c.dispatched) =>
            /\ "email" \in DOMAIN c.body
            /\ c.body["email"] = Str(c.email)
            /\ MapDrop(c.body, "email") = c.vres.m
            /\ c.vres.m = MapDrop(c.argFields, "email")
            /\ c.fields = c.argFields
            /\ \A i \in 1..Len(c.wire) :
                  c.wire[i].json["email"] = <<"\"", c.email, "\"">>

C4_Witness ==
    \E p \in Procs :
        LET c == calls[p] IN
        /\ c.op = "CreateContact"
        /\ c.pc = "await"
        /\ "email" \in DOMAIN c.argFields
        /\ c.argFields["email"].type = "string"
        /\ c.argFields["email"] # Str(c.email)
        /\ CustomKeysOf(c.argFields) # {}

\* The part of a response body a reader gets before a Read fails.
ReadablePrefix(r) ==
    IF r.failAt = 0 THEN r.Body ELSE SubSeq(r.Body, 1, r.failAt - 1)

\* The body holds a JSON value before any malformed chunk or failing Read.
HasReadableValue(r) ==
    \E i \in 1..Len(ReadablePrefix(r)) :
        /\ r.Body[i] = "val"
        /\ \A j \in 1..(i - 1) : r.Body[j] = "sp"

\* C5 as stated: a status >= 400 yields (nil, an error holding the status
\* text and the raw response body); a status < 400 never yields the status
\* error and fails only if decoding fails.
C5_StatusErrorHoldsRawBody ==
    \A p \in Procs :
        LET c == calls[p] IN
        (c.pc = "done" /\ c.opened) =>
            /\ c.resp.StatusCode >= 400 =>
                  /\ c.ret.resp = NilResponse
                  /\ Contains(c.ret.err, <<c.resp.Status>>)
                  /\ Contains(c.ret.err, c.resp.Body)
            /\ c.resp.StatusCode < 400 =>
                  /\ ~Contains(c.ret.err, <<c.resp.Status>>)
                  /\ (c.ret.err = NoError) = HasReadableValue(c.resp)

\* C5 amended: a status >= 400 yields (nil, an error made of the status
\* text and the part of the body read before any Read failed, which is the
\* whole body when no Read fails); a status < 400 never yields the status
\* error and fails only if decoding fails.
C5_StatusErrorHoldsBodyRead ==
    \A p \in Procs :
        LET c == calls[p] IN
        (c.pc = "done" /\ c.opened) =>
            /\ c.resp.StatusCode >= 400 =>
                  /\ c.ret.resp = NilResponse
                  /\ Contains(c.ret.err, <<c.resp.Status>>)
                  /\ Contains(c.ret.err, ReadablePrefix(c.resp))
                  /\ Len(c.ret.err) = 2 + Len(ReadablePrefix(c.resp))
            /\ c.resp.StatusCode < 400 =>
                  /\ ~Contains(c.ret.err, <<c.resp.Status>>)
                  /\ (c.ret.err = NoError) = HasReadableValue(c.resp)

C5_Witness ==
    \E p \in Procs :
        LET c == calls[p] IN
        /\ c.pc = "done"
        /\ c.opened
        /\ c.resp.StatusCode = 400
        /\ c.resp.Body = <<"bad", "sp">>
        /\ c.resp.failAt = 2

\* Validation (if any), marshalling and request construction succeed for
\* the call.
Constructible(c) ==
    /\ c.validated => c.vres.err = NoError
    /\ c.dispatched
    /\ \A k \in DOMAIN c.body : Marshalable(c.body[k])
    /\ URLParses(endpoint \o Path(c.op))

\* C6: a facade call hands at most one request to the transport, and
\* exactly one when validation and request construction succeed, whatever
\* the transport returns.
C6_OneRequestPerCall ==
    \A p \in Procs :
        LET c == calls[p] IN
        /\ Len(c.wire) <= 1
        /\ c.pc \in {"await", "done"} => ((Len(c.wire) = 1) = Constructible(c))
        /\ c.pc = "idle" => c.wire = <<>>

C6_Witness ==
    \E p \in Procs :
        LET c == calls[p] IN
        /\ c.pc = "done"
        /\ c.op = "SendTransactional"
        /\ c.opened
        /\ c.resp.StatusCode = 500
        /\ Len(c.wire) = 1

\* C7: a finished facade call returns either (a response of the call's
\* type, no error) or (nil, an error), never both and never neither.
C7_NoPartialSuccess ==
    \A p \in Procs :
        LET c == calls[p] IN
        c.pc = "done" =>
            \/ c.ret.resp = ResponseType(c.op) /\ c.ret.err = NoError
            \/ c.ret.resp = NilResponse /\ c.ret.err # NoError

C7_Witness ==
    \E p \in Procs :
        LET c == calls[p] IN
        /\ c.pc = "done"
        /\ c.opened
        /\ c.resp.StatusCode = 200
        /\ c.resp.Body = <<"val", "bad">>
        /\ c.resp.failAt = 2
        /\ c.ret.err = NoError

\* C8: the stored endpoint never ends with a slash, and every request URL
\* is the stored endpoint followed by the operation's path.
C8_EndpointHasNoTrailingSlash ==
    /\ ~HasSuffix(endpoint, <<"/">>)
    /\ \A p \in Procs :
          \A i \in 1..Len(calls[p].wire) :
              calls[p].wire[i].url = endpoint \o Path(calls[p].op)

\* C9 as stated: when doRequest got a response, the body has been read to
\* its end (as far as the connection delivers it) and closed by the time
\* doRequest returns.
C9_BodyDrainedAndClosed ==
    \A p \in Procs :
        LET c == calls[p] IN
        (c.pc = "done" /\ c.opened) =>
            /\ c.closed
            /\ c.read = Len(ReadablePrefix(c.resp))

\* C9 amended: when doRequest got a response, the body has been closed by
\* the time doRequest returns; it has been read to its end (as far as the
\* connection delivers it) when the status is >= 400, and otherwise only as
\* far as the decoder went, which on success is the end of the first JSON
\* value.
C9_BodyClosed ==
    \A p \in Procs :
        LET c == calls[p] IN
        (c.pc = "done" /\ c.opened) =>
            /\ c.closed
            /\ c.resp.StatusCode >= 400 => c.read = Len(ReadablePrefix(c.resp))
            /\ (c.resp.StatusCode < 400 /\ c.ret.err = NoError) =>
                  /\ c.read \in 1..Len(c.resp.Body)
                  /\ c.resp.Body[c.read] = "val"
                  /\ \A j \in 1..(c.read - 1) : c.resp.Body[j] = "sp"

C9_Witness ==
    \E p \in Procs :
        LET c == calls[p] IN
        /\ c.pc = "done"
        /\ c.opened
        /\ c.closed
        /\ c.resp.StatusCode = 200
        /\ c.resp.Body = <<"val", "sp">>
        /\ c.read = 1

\* C10: a step of a facade call leaves the API key, the endpoint and the
\* HTTP client as they are and touches no other caller's call; only
\* WithEndpoint and WithHTTPClient change the configuration.
C10_CallsLeaveConfigAlone ==
    [][/\ calls' # calls => <<apiKey, endpoint, client>>' = <<apiKey, endpoint, client>>
       /\ \A p \in Procs :
             calls'[p] # calls[p] => \A q \in Procs \ {p} : calls'[q] = calls[q]]_vars

C10_Witness ==
    /\ client = "nil"
    /\ calls["p1"].pc = "await"
    /\ calls["p2"].pc = "done"
    /\ calls["p2"].opened
    /\ calls["p1"].wire[1].client = "http.DefaultClient"

====
